---- MODULE Spec2Model ----
(***************************************************************************)
(* Order-book DEX constraint checkers (dex/src/lib.rs) and the UTXO        *)
(* pre-validator with its ledger store (frameless-runtime/src/utxo.rs).    *)
(*                                                                         *)
(* Four specifications share the variables of this module:                 *)
(*   SpecMake   MakeOrder::check applied to bounded input/output slices    *)
(*   SpecMatch  MatchOrders::check applied to bounded input/output slices  *)
(*   Spec       the ledger store with whole-transaction validation         *)
(*   SpecRace   two validations interleaved peek by peek with application  *)
(***************************************************************************)
EXTENDS Integers, Sequences, FiniteSets

VARIABLES
    overflow_checks,\* the build: TRUE when `+` aborts on overflow, FALSE when it wraps
    mk_inputs,      \* MakeOrder::check argument input_data
    mk_outputs,     \* MakeOrder::check argument output_data
    mk_result,      \* what the call returned (NotCalled before the call)
    mt_inputs,      \* MatchOrders::check argument inputs
    mt_outputs,     \* MatchOrders::check argument outputs
    mt_result,      \* what the call returned (NotCalled before the call)
    utxo_set,       \* the ledger store: OutputRef -> Utxo, NoUtxo when absent
    nullified,      \* history: references on which nullify returned Some
    revived,        \* history: references inserted again since they were nullified
    v_tx,           \* per validator: the transaction under validation
    v_pc,           \* per validator: position in pre_validate / application
    v_idx,          \* per validator: index of the next input to peek
    v_late          \* history: validation began after a conflicting apply

mk_vars == <<mk_inputs, mk_outputs, mk_result>>
mt_vars == <<mt_inputs, mt_outputs, mt_result>>
ledger_vars == <<utxo_set, nullified, revived>>
race_vars == <<v_tx, v_pc, v_idx, v_late>>
vars == <<overflow_checks, mk_vars, mt_vars, ledger_vars, race_vars>>

-----------------------------------------------------------------------------
(* Bounds of the model *)

\* Width in bits of the model's stand-in for u128 (Order.offer_amount etc.).
Bits == 2
\* Longest input_data / output_data slice handed to MakeOrder::check.
MaxLen == 2
\* Longest inputs / outputs slice handed to MatchOrders::check.
MaxBatch == 2
\* Most inputs of a ledger transaction.
MaxTxInputs == 2

U128_MAX == 2 ^ Bits - 1
Modulus == U128_MAX + 1

\* Token identifiers of the configured pair (tests.rs: Coin<0>, Coin<1>).
A_ID == 0
B_ID == 1

-----------------------------------------------------------------------------
(* Results: Result<TransactionPriority, DexError>, or the abort of an      *)
(* overflowing `+=` in a build with overflow checks.                       *)

Ok(p) == [tag |-> "Ok", priority |-> p, error |-> "None"]
Err(e) == [tag |-> "Err", priority |-> 0, error |-> e]
Panic == [tag |-> "Panic", priority |-> 0, error |-> "Overflow"]
NotCalled == [tag |-> "NotCalled", priority |-> 0, error |-> "None"]

\* `x += y` on u128. With overflow checks the addition aborts (-1 here);
\* without them it wraps modulo 2^width.
AddU128(checks, x, y) ==
    IF x + y > U128_MAX
    THEN IF checks THEN -1 ELSE (x + y) % Modulus
    ELSE x + y

-----------------------------------------------------------------------------
(* Typed payloads: DynamicallyTypedData {data, type_id}.  data is the      *)
(* encoding as a tuple of words: a coin is one word (its value), an order  *)
(* three (offer_amount, ask_amount, payout_verifier).                      *)

CoinTypeId(id) == <<99, 111, 105, id>>
OrderTypeId(T) == <<36, 36, T.A, T.B>>

TestConfig == [A |-> A_ID, B |-> B_ID]
OppositeSide(T) == [A |-> T.B, B |-> T.A]

CoinData(id, v) == [type_id |-> CoinTypeId(id), data |-> <<v>>]
OrderData(T, offer, ask, verifier) ==
    [type_id |-> OrderTypeId(T), data |-> <<offer, ask, verifier>>]

\* extract::<Coin<id>>(): Ok iff the type id matches and the bytes decode.
IsCoin(d, id) == d.type_id = CoinTypeId(id) /\ Len(d.data) >= 1
CoinValue(d) == d.data[1]

\* extract::<Order<T>>(): Ok iff the type id matches and the bytes decode.
IsOrder(d, T) == d.type_id = OrderTypeId(T) /\ Len(d.data) >= 3
OrderOf(d) ==
    [offer_amount |-> d.data[1], ask_amount |-> d.data[2],
     payout_verifier |-> d.data[3]]

-----------------------------------------------------------------------------
(* MakeOrder::check *)

\* The loop over input_data (lib.rs 148-152): extract each input as T::A and
\* add its value; the first failure ends the call.
RECURSIVE SumCollateral(_, _, _, _, _)
SumCollateral(checks, T, input_data, i, total_collateral) ==
    IF i > Len(input_data) THEN [tag |-> "Sum", total |-> total_collateral]
    ELSE IF ~IsCoin(input_data[i], T.A) THEN [tag |-> "TypeError", total |-> 0]
    ELSE LET t == AddU128(checks, total_collateral, CoinValue(input_data[i]))
         IN IF t = -1 THEN [tag |-> "Panic", total |-> 0]
            ELSE SumCollateral(checks, T, input_data, i + 1, t)

\* Mutant: the inputs are extracted before the outputs are counted.
MakeOrderCheckTypesFirst(checks, T, input_data, output_data) ==
    LET s == SumCollateral(checks, T, input_data, 1, 0)
    IN IF s.tag = "TypeError" THEN Err("TypeError")
       ELSE IF s.tag = "Panic" THEN Panic
       ELSE IF Len(output_data) = 0 THEN Err("OrderMissing")
       ELSE IF Len(output_data) # 1 THEN Err("TooManyOutputsWhenMakingOrder")
       ELSE IF ~IsOrder(output_data[1], T) THEN Err("TypeError")
       ELSE IF s.total # OrderOf(output_data[1]).offer_amount
            THEN Err("NotEnoughCollateralToOpenOrder")
            ELSE Ok(0)

MakeOrderCheck(checks, T, input_data, output_data) ==
    IF Len(output_data) = 0 THEN Err("OrderMissing")
    ELSE IF Len(output_data) # 1 THEN Err("TooManyOutputsWhenMakingOrder")
    ELSE IF ~IsOrder(output_data[1], T) THEN Err("TypeError")
    ELSE LET order == OrderOf(output_data[1])
             s == SumCollateral(checks, T, input_data, 1, 0)
         IN IF s.tag = "TypeError" THEN Err("TypeError")
            ELSE IF s.tag = "Panic" THEN Panic
            ELSE IF s.total # order.offer_amount
                 THEN Err("NotEnoughCollateralToOpenOrder")
                 ELSE Ok(0)

-----------------------------------------------------------------------------
(* MatchOrders::check *)

\* tuxedo_core Output<V>: a payload and the verifier that guards it.
TxOutput(payload, verifier) == [payload |-> payload, verifier |-> verifier]

\* Mutant: the payout's owner is not compared with the order's payee.
FillOrderAnyPayee(checks, order, output, payout_id, offered_so_far, total_required) ==
    LET offered == AddU128(checks, offered_so_far, order.offer_amount)
        required == AddU128(checks, total_required, order.ask_amount)
    IN IF offered = -1 \/ required = -1 THEN [tag |-> "Panic"]
       ELSE IF ~IsCoin(output.payload, payout_id)
            THEN [tag |-> "Err", error |-> "TypeError"]
       ELSE IF CoinValue(output.payload) # order.ask_amount
            THEN [tag |-> "Err", error |-> "PayoutDoesNotSatisfyOrder"]
       ELSE [tag |-> "Filled", offered |-> offered, required |-> required]

\* One arm of the loop body (lib.rs 195-209 and 211-225): add the order's
\* offer and ask to the running totals, then check the paired payout.
\* payout_id is the token the order asks for.
FillOrder(checks, order, output, payout_id, offered_so_far, total_required) ==
    LET offered == AddU128(checks, offered_so_far, order.offer_amount)
        required == AddU128(checks, total_required, order.ask_amount)
    IN IF offered = -1 \/ required = -1 THEN [tag |-> "Panic"]
       ELSE IF ~IsCoin(output.payload, payout_id)
            THEN [tag |-> "Err", error |-> "TypeError"]
       ELSE IF CoinValue(output.payload) # order.ask_amount
            THEN [tag |-> "Err", error |-> "PayoutDoesNotSatisfyOrder"]
       ELSE IF output.verifier # order.payout_verifier
            THEN [tag |-> "Err", error |-> "VerifierMismatchForTrade"]
       ELSE [tag |-> "Filled", offered |-> offered, required |-> required]

\* Mutant: the second arm keeps the totals of the first (a_so_far and
\* total_b_required) instead of b_so_far and total_a_required.
RECURSIVE MatchLoopOneSided(_, _, _, _, _, _)
MatchLoopOneSided(checks, T, inputs, outputs, i, acc) ==
    IF i > Len(inputs) \/ i > Len(outputs) THEN [tag |-> "Done", acc |-> acc]
    ELSE IF IsOrder(inputs[i].payload, T) \/ IsOrder(inputs[i].payload, OppositeSide(T))
    THEN LET f == FillOrder(checks, OrderOf(inputs[i].payload), outputs[i],
                            IF IsOrder(inputs[i].payload, T) THEN T.B ELSE T.A,
                            acc.a_so_far, acc.total_b_required)
         IN IF f.tag # "Filled" THEN f
            ELSE MatchLoopOneSided(checks, T, inputs, outputs, i + 1,
                                   [acc EXCEPT !.a_so_far = f.offered,
                                               !.total_b_required = f.required])
    ELSE [tag |-> "Err", error |-> "TypeError"]

\* The loop over inputs.iter().zip(outputs) (lib.rs 192-232).
RECURSIVE MatchLoop(_, _, _, _, _, _)
MatchLoop(checks, T, inputs, outputs, i, acc) ==
    IF i > Len(inputs) \/ i > Len(outputs) THEN [tag |-> "Done", acc |-> acc]
    ELSE IF IsOrder(inputs[i].payload, T)
    THEN LET f == FillOrder(checks, OrderOf(inputs[i].payload), outputs[i], T.B,
                            acc.a_so_far, acc.total_b_required)
         IN IF f.tag # "Filled" THEN f
            ELSE MatchLoop(checks, T, inputs, outputs, i + 1,
                           [acc EXCEPT !.a_so_far = f.offered,
                                       !.total_b_required = f.required])
    ELSE IF IsOrder(inputs[i].payload, OppositeSide(T))
    THEN LET f == FillOrder(checks, OrderOf(inputs[i].payload), outputs[i], T.A,
                            acc.b_so_far, acc.total_a_required)
         IN IF f.tag # "Filled" THEN f
            ELSE MatchLoop(checks, T, inputs, outputs, i + 1,
                           [acc EXCEPT !.b_so_far = f.offered,
                                       !.total_a_required = f.required])
    ELSE [tag |-> "Err", error |-> "TypeError"]

\* Mutant: the totals are not compared after the loop.
MatchOrdersCheckNoDeficitTest(checks, T, inputs, outputs) ==
    IF Len(inputs) # Len(outputs) THEN Err("OrderAndPayoutCountDiffer")
    ELSE LET m == MatchLoop(checks, T, inputs, outputs, 1,
                            [total_a_required |-> 0, total_b_required |-> 0,
                             a_so_far |-> 0, b_so_far |-> 0])
         IN IF m.tag = "Panic" THEN Panic
            ELSE IF m.tag = "Err" THEN Err(m.error)
            ELSE Ok(0)

MatchOrdersCheck(checks, T, inputs, outputs) ==
    IF Len(inputs) # Len(outputs) THEN Err("OrderAndPayoutCountDiffer")
    ELSE LET m == MatchLoop(checks, T, inputs, outputs, 1,
                            [total_a_required |-> 0, total_b_required |-> 0,
                             a_so_far |-> 0, b_so_far |-> 0])
         IN IF m.tag = "Panic" THEN Panic
            ELSE IF m.tag = "Err" THEN Err(m.error)
            ELSE IF ~(m.acc.a_so_far >= m.acc.total_a_required)
                 THEN Err("InsufficientTokenAForMatch")
            ELSE IF ~(m.acc.b_so_far >= m.acc.total_b_required)
                 THEN Err("InsufficientTokenBForMatch")
            ELSE Ok(0)

-----------------------------------------------------------------------------
(* The ledger records of utxo.rs *)

Refs == {"r1", "r2", "r3"}
Redeemers == {1, 2}

\* Output {redeemer, data, data_id}
Utxo(redeemer, d) == [redeemer |-> redeemer, data |-> d.data, data_id |-> d.type_id]
NoUtxo == [redeemer |-> 0, data |-> <<>>, data_id |-> <<>>]

\* Input {output, witness}.  A witness is the tuple of its words: a signature
\* is two words (the key that signed the transaction, the signer's nonce),
\* anything else is not a signature.
TxInput(ref, witness) == [output |-> ref, witness |-> witness]

\* Transaction {inputs, peeks, outputs}, and the constraint checker the
\* transaction declares.
Transaction(inputs, outputs, checker) ==
    [inputs |-> inputs, peeks |-> <<>>, outputs |-> outputs, checker |-> checker]

\* Redeemer::redeem (utxo.rs 84-90): the witness must parse as a signature
\* and verify against the redeemer's key.  The signed message is taken to
\* be the transaction that carries the witness.
Redeem(redeemer, tx, witness) ==
    IF Len(witness) # 2 THEN FALSE
    ELSE witness[1] = redeemer

\* UtxoSet::peak (utxo.rs 137-143)
Peak(store, utxo_ref) == store[utxo_ref]

\* The set the inputs are collected into (utxo.rs 97): a BTreeSet of Input,
\* ordered and compared by the derived Ord on (output, witness).
InputSet(tx) == {tx.inputs[i] : i \in DOMAIN tx.inputs}

\* The duplicate test (utxo.rs 96-101): TRUE when the transaction passes.
NoDuplicateInputs(tx) == ~(Cardinality(InputSet(tx)) < Len(tx.inputs))

\* Mutant: an input whose output is absent from the store is skipped.
InputAdmissibleSkipsAbsent(store, tx, i) ==
    Peak(store, tx.inputs[i].output) # NoUtxo =>
        Redeem(Peak(store, tx.inputs[i].output).redeemer, tx, tx.inputs[i].witness)

\* The loop body (utxo.rs 104-110): the referenced output is in the store
\* and its redeemer accepts the witness.
InputAdmissible(store, tx, i) ==
    /\ Peak(store, tx.inputs[i].output) # NoUtxo
    /\ Redeem(Peak(store, tx.inputs[i].output).redeemer, tx, tx.inputs[i].witness)

\* Mutant: only the duplicate test is made; no input is looked up.
PreValidateDuplicatesOnly(store, tx) ==
    IF ~NoDuplicateInputs(tx) THEN "Err" ELSE "Ok"

\* PreValidator::pre_validate (utxo.rs 95-113)
PreValidate(store, tx) ==
    IF ~NoDuplicateInputs(tx) THEN "Err"
    ELSE IF \A i \in DOMAIN tx.inputs : InputAdmissible(store, tx, i)
         THEN "Ok"
         ELSE "Err"

\* The payload of a ledger output, and the output as a checker sees it.
PayloadOf(utxo) == [type_id |-> utxo.data_id, data |-> utxo.data]
AsTxOutput(utxo) == TxOutput(PayloadOf(utxo), utxo.redeemer)

\* Validation of a transaction: pre_validate, then the declared checker on
\* the outputs the inputs consume and the outputs the transaction creates.
ValidateTx(checks, store, tx) ==
    IF PreValidate(store, tx) # "Ok" THEN Err("PreValidation")
    ELSE LET consumed == [i \in DOMAIN tx.inputs |-> Peak(store, tx.inputs[i].output)]
         IN IF tx.checker = "MakeOrder"
            THEN MakeOrderCheck(checks, TestConfig,
                                [i \in DOMAIN consumed |-> PayloadOf(consumed[i])],
                                [i \in DOMAIN tx.outputs |-> PayloadOf(tx.outputs[i])])
            ELSE MatchOrdersCheck(checks, TestConfig,
                                  [i \in DOMAIN consumed |-> AsTxOutput(consumed[i])],
                                  [i \in DOMAIN tx.outputs |-> AsTxOutput(tx.outputs[i])])

-----------------------------------------------------------------------------
(* Values of the variables a specification does not use *)

NoTx == [inputs |-> <<>>, peeks |-> <<>>, outputs |-> <<>>, checker |-> "None"]
Validators == {"v1", "v2"}

MakeIdle == mk_inputs = <<>> /\ mk_outputs = <<>> /\ mk_result = NotCalled
MatchIdle == mt_inputs = <<>> /\ mt_outputs = <<>> /\ mt_result = NotCalled
LedgerIdle ==
    /\ utxo_set = [r \in Refs |-> NoUtxo]
    /\ nullified = {}
    /\ revived = {}
RaceIdle ==
    /\ v_tx = [p \in Validators |-> NoTx]
    /\ v_pc = [p \in Validators |-> "idle"]
    /\ v_idx = [p \in Validators |-> 1]
    /\ v_late = [p \in Validators |-> FALSE]

-----------------------------------------------------------------------------
(* SpecMake: MakeOrder::check on every input_data / output_data drawn from  *)
(* the sample payloads, in both builds.                                     *)

Amounts == {0, 1, U128_MAX - 1, U128_MAX}

\* A payload whose type id is right and whose bytes do not decode.
Undecodable(type_id) == [type_id |-> type_id, data |-> <<>>]

MakeInputs ==
    {CoinData(A_ID, v) : v \in Amounts}
        \cup {CoinData(B_ID, 1), OrderData(TestConfig, 1, 1, 1),
              Undecodable(CoinTypeId(A_ID))}

MakeOutputs ==
    {OrderData(TestConfig, offer, 1, 1) : offer \in Amounts}
        \cup {OrderData(OppositeSide(TestConfig), 1, 1, 1), CoinData(A_ID, 1),
              Undecodable(OrderTypeId(TestConfig))}

InitMake ==
    /\ overflow_checks \in BOOLEAN
    /\ \E n \in 0..MaxLen : mk_inputs \in [1..n -> MakeInputs]
    /\ \E n \in 0..MaxLen : mk_outputs \in [1..n -> MakeOutputs]
    /\ mk_result = NotCalled
    /\ MatchIdle /\ LedgerIdle /\ RaceIdle

CallMakeOrder ==
    /\ mk_result = NotCalled
    /\ mk_result' = MakeOrderCheck(overflow_checks, TestConfig, mk_inputs, mk_outputs)
    /\ UNCHANGED <<overflow_checks, mk_inputs, mk_outputs, mt_vars, ledger_vars,
                   race_vars>>

NextMake == CallMakeOrder

SpecMake == InitMake /\ [][NextMake]_vars

-----------------------------------------------------------------------------
(* SpecMatch: MatchOrders::check on every inputs / outputs drawn from the   *)
(* sample orders and payouts, in both builds.                               *)

MatchAmounts == {0, 1, U128_MAX}

\* (offer_amount, ask_amount) of the sample orders.
OrderTerms ==
    {<<1, 0>>, <<1, 1>>, <<U128_MAX, 1>>, <<1, U128_MAX>>, <<U128_MAX, U128_MAX>>}

\* Orders on either side of the pair, all naming redeemer 1 as the payee,
\* and one input that is no order.  The verifier guarding an input is not
\* read by the check.
MatchInputs ==
    {TxOutput(OrderData(T, t[1], t[2], 1), 1) :
        T \in {TestConfig, OppositeSide(TestConfig)}, t \in OrderTerms}
        \cup {TxOutput(CoinData(A_ID, 1), 1)}

\* Payouts of every sample amount in either token to redeemer 1, payouts of
\* 1 to redeemer 2, and one output that is no coin.
MatchOutputs ==
    {TxOutput(CoinData(id, v), 1) : id \in {A_ID, B_ID}, v \in MatchAmounts}
        \cup {TxOutput(CoinData(id, 1), 2) : id \in {A_ID, B_ID}}
        \cup {TxOutput(OrderData(TestConfig, 1, 1, 1), 1)}

InitMatch ==
    /\ overflow_checks \in BOOLEAN
    /\ \E n \in 0..MaxBatch : mt_inputs \in [1..n -> MatchInputs]
    /\ \E n \in 0..MaxBatch : mt_outputs \in [1..n -> MatchOutputs]
    /\ mt_result = NotCalled
    /\ MakeIdle /\ LedgerIdle /\ RaceIdle

CallMatchOrders ==
    /\ mt_result = NotCalled
    /\ mt_result' = MatchOrdersCheck(overflow_checks, TestConfig, mt_inputs, mt_outputs)
    /\ UNCHANGED <<overflow_checks, mt_inputs, mt_outputs, mk_vars, ledger_vars,
                   race_vars>>

NextMatch == CallMatchOrders

SpecMatch == InitMatch /\ [][NextMatch]_vars

-----------------------------------------------------------------------------
(* Claims about MakeOrder::check (SpecMake) *)

MakeCalled == mk_result # NotCalled

\* The arithmetic sum of the coin values of input_data[i..].
RECURSIVE TrueCoinSum(_, _)
TrueCoinSum(input_data, i) ==
    IF i > Len(input_data) THEN 0
    ELSE CoinValue(input_data[i]) + TrueCoinSum(input_data, i + 1)

\* One output that extracts as an Order of the pair, inputs all token A.
MakeWellTyped ==
    /\ Len(mk_outputs) = 1
    /\ IsOrder(mk_outputs[1], TestConfig)
    /\ \A i \in DOMAIN mk_inputs : IsCoin(mk_inputs[i], A_ID)

\* C1: with one Order output and token-A inputs, the call returns Ok(0) when
\* the arithmetic sum of the coin values equals offer_amount and
\* Err(NotEnoughCollateralToOpenOrder) when it differs.
C1_ExactCollateral ==
    (MakeCalled /\ MakeWellTyped) =>
        IF TrueCoinSum(mk_inputs, 1) = OrderOf(mk_outputs[1]).offer_amount
        THEN mk_result = Ok(0)
        ELSE mk_result = Err("NotEnoughCollateralToOpenOrder")

\* C10: no output gives OrderMissing and two or more give
\* TooManyOutputsWhenMakingOrder, whatever the inputs and outputs hold.
C10_OutputCountFirst ==
    MakeCalled =>
        /\ Len(mk_outputs) = 0 => mk_result = Err("OrderMissing")
        /\ Len(mk_outputs) >= 2 => mk_result = Err("TooManyOutputsWhenMakingOrder")

\* C10 witness: the roles swapped, an order as the input and two coins as
\* the outputs, answered with TooManyOutputsWhenMakingOrder.
C10_Witness ==
    /\ mk_inputs = <<OrderData(TestConfig, 1, 1, 1)>>
    /\ mk_outputs = <<CoinData(A_ID, 1), CoinData(A_ID, 1)>>
    /\ mk_result = Err("TooManyOutputsWhenMakingOrder")

-----------------------------------------------------------------------------
(* Claims about MatchOrders::check (SpecMatch) *)

MatchCalled == mt_result # NotCalled

IsAnyOrder(d) == IsOrder(d, TestConfig) \/ IsOrder(d, OppositeSide(TestConfig))

\* The token the order in payload d asks for.
AskedToken(d) == IF IsOrder(d, TestConfig) THEN B_ID ELSE A_ID

\* The arithmetic sum of field f over the orders of side T in inputs[i..].
RECURSIVE TrueTotal(_, _, _, _)
TrueTotal(inputs, T, f, i) ==
    IF i > Len(inputs) THEN 0
    ELSE (IF IsOrder(inputs[i].payload, T) THEN OrderOf(inputs[i].payload)[f] ELSE 0)
         + TrueTotal(inputs, T, f, i + 1)

\* C2: an accepted batch has no deficit on either side.
C2_NoDeficit ==
    mt_result.tag = "Ok" =>
        /\ TrueTotal(mt_inputs, TestConfig, "ask_amount", 1)
              <= TrueTotal(mt_inputs, OppositeSide(TestConfig), "offer_amount", 1)
        /\ TrueTotal(mt_inputs, OppositeSide(TestConfig), "ask_amount", 1)
              <= TrueTotal(mt_inputs, TestConfig, "offer_amount", 1)

\* outputs[i] pays the order inputs[i]: the asked token, exactly ask_amount.
PaysAsk(inputs, outputs, i) ==
    /\ IsAnyOrder(inputs[i].payload)
    /\ IsCoin(outputs[i].payload, AskedToken(inputs[i].payload))
    /\ CoinValue(outputs[i].payload) = OrderOf(inputs[i].payload).ask_amount

\* outputs[i] is owned by the payee of the order inputs[i].
PaysPayee(inputs, outputs, i) ==
    outputs[i].verifier = OrderOf(inputs[i].payload).payout_verifier

\* The outputs with every payout handed to the payee of its order.
PaidToPayees(inputs, outputs) ==
    [i \in DOMAIN outputs |->
        IF i \in DOMAIN inputs /\ IsAnyOrder(inputs[i].payload)
        THEN [outputs[i] EXCEPT !.verifier = OrderOf(inputs[i].payload).payout_verifier]
        ELSE outputs[i]]

\* The batch is accepted once its payouts are handed to the payees, and
\* some payout is not: the owner of a payout is its only defect.
OnlyPayeeDefect ==
    /\ Len(mt_inputs) = Len(mt_outputs)
    /\ \E i \in DOMAIN mt_inputs :
          IsAnyOrder(mt_inputs[i].payload) /\ ~PaysPayee(mt_inputs, mt_outputs, i)
    /\ MatchOrdersCheck(overflow_checks, TestConfig, mt_inputs,
                        PaidToPayees(mt_inputs, mt_outputs)) = Ok(0)

\* C3: in an accepted batch every output pays its order the asked token,
\* exactly ask_amount, to payout_verifier; a batch whose only defect is the
\* owner of a payout is rejected with VerifierMismatchForTrade.
C3_ExactPayouts ==
    /\ mt_result.tag = "Ok" =>
          /\ Len(mt_inputs) = Len(mt_outputs)
          /\ \A i \in DOMAIN mt_inputs :
                PaysAsk(mt_inputs, mt_outputs, i) /\ PaysPayee(mt_inputs, mt_outputs, i)
    /\ (MatchCalled /\ OnlyPayeeDefect) =>
          mt_result = Err("VerifierMismatchForTrade")

\* C3 witness: an accepted batch of two orders, one on each side, each
\* paid in full to its payee.
C3_Witness ==
    /\ mt_result.tag = "Ok"
    /\ Len(mt_inputs) = 2
    /\ \A i \in DOMAIN mt_inputs :
          PaysAsk(mt_inputs, mt_outputs, i) /\ PaysPayee(mt_inputs, mt_outputs, i)
    /\ IsOrder(mt_inputs[1].payload, TestConfig)
    /\ IsOrder(mt_inputs[2].payload, OppositeSide(TestConfig))
    /\ OrderOf(mt_inputs[1].payload).ask_amount > 0

\* One order and one paired output of the asked token.
SingleOrder ==
    /\ Len(mt_inputs) = 1 /\ Len(mt_outputs) = 1
    /\ IsAnyOrder(mt_inputs[1].payload)
    /\ IsCoin(mt_outputs[1].payload, AskedToken(mt_inputs[1].payload))

\* C4 as stated: for one order, a payout below or above ask_amount gives
\* PayoutDoesNotSatisfyOrder and a payout of ask_amount to the payee succeeds.
C4_SinglePayout ==
    (MatchCalled /\ SingleOrder) =>
        IF CoinValue(mt_outputs[1].payload) # OrderOf(mt_inputs[1].payload).ask_amount
        THEN mt_result = Err("PayoutDoesNotSatisfyOrder")
        ELSE PaysPayee(mt_inputs, mt_outputs, 1) => mt_result.tag = "Ok"

\* C4 amended: for one order, a payout below or above ask_amount gives
\* PayoutDoesNotSatisfyOrder; a payout of ask_amount to the payee succeeds
\* when ask_amount is 0 and otherwise fails with InsufficientTokenBForMatch
\* (an order offering A) or InsufficientTokenAForMatch (an order offering B),
\* the batch holding no order that supplies the asked token.
C4_SinglePayoutAmended ==
    (MatchCalled /\ SingleOrder) =>
        IF CoinValue(mt_outputs[1].payload) # OrderOf(mt_inputs[1].payload).ask_amount
        THEN mt_result = Err("PayoutDoesNotSatisfyOrder")
        ELSE PaysPayee(mt_inputs, mt_outputs, 1) =>
                IF OrderOf(mt_inputs[1].payload).ask_amount = 0
                THEN mt_result = Ok(0)
                ELSE IF IsOrder(mt_inputs[1].payload, TestConfig)
                     THEN mt_result = Err("InsufficientTokenBForMatch")
                     ELSE mt_result = Err("InsufficientTokenAForMatch")

\* C4 witness: one order asking a positive amount, paid exactly, rejected
\* for the missing supply.
C4_Witness ==
    /\ SingleOrder
    /\ OrderOf(mt_inputs[1].payload).ask_amount > 0
    /\ PaysAsk(mt_inputs, mt_outputs, 1) /\ PaysPayee(mt_inputs, mt_outputs, 1)
    /\ mt_result = Err("InsufficientTokenBForMatch")

\* Positions i and j hold an order offering x of A for y of B and an order
\* offering y of B for x of A, each paid in full to its payee.
Crossed(i, j) ==
    /\ IsOrder(mt_inputs[i].payload, TestConfig)
    /\ IsOrder(mt_inputs[j].payload, OppositeSide(TestConfig))
    /\ OrderOf(mt_inputs[j].payload).offer_amount = OrderOf(mt_inputs[i].payload).ask_amount
    /\ OrderOf(mt_inputs[j].payload).ask_amount = OrderOf(mt_inputs[i].payload).offer_amount
    /\ \A k \in {i, j} :
          PaysAsk(mt_inputs, mt_outputs, k) /\ PaysPayee(mt_inputs, mt_outputs, k)

\* C5: two crossed orders, in either order, are matched with priority 0.
C5_CrossedPair ==
    (/\ MatchCalled
     /\ Len(mt_inputs) = 2 /\ Len(mt_outputs) = 2
     /\ Crossed(1, 2) \/ Crossed(2, 1)) => mt_result = Ok(0)

\* C5 witness: the B-side order first, the amounts different, matched.
C5_Witness ==
    /\ Len(mt_inputs) = 2 /\ Len(mt_outputs) = 2
    /\ Crossed(2, 1)
    /\ OrderOf(mt_inputs[1].payload).offer_amount # OrderOf(mt_inputs[1].payload).ask_amount
    /\ mt_result = Ok(0)

-----------------------------------------------------------------------------
(* Spec: the ledger store under insert, nullify and the application of      *)
(* validated transactions.                                                  *)

\* Two signatures made with key 1 (signing is randomised) and bytes that
\* are no signature.
Witnesses == {<<1, 0>>, <<1, 1>>, <<>>}

LedgerUtxos ==
    {Utxo(1, CoinData(A_ID, 1)), Utxo(2, CoinData(A_ID, 1)),
     Utxo(1, OrderData(TestConfig, 1, 0, 1)), Utxo(1, OrderData(TestConfig, 0, 0, 1)),
     Utxo(1, CoinData(B_ID, 0))}

TxInputs == {TxInput(r, w) : r \in Refs, w \in Witnesses}

Txs ==
    {Transaction(inputs, outputs, checker) :
        inputs \in UNION {[1..n -> TxInputs] : n \in 0..MaxTxInputs},
        outputs \in {<<>>} \cup {<<u>> : u \in LedgerUtxos},
        checker \in {"MakeOrder", "MatchOrders"}}

InputRefs(tx) == {tx.inputs[i].output : i \in DOMAIN tx.inputs}

\* UtxoSet::insert: succeeds unless the reference is already present.
Insert(utxo_ref, utxo) ==
    /\ utxo_set[utxo_ref] = NoUtxo
    /\ utxo_set' = [utxo_set EXCEPT ![utxo_ref] = utxo]
    /\ revived' = revived \cup ({utxo_ref} \cap nullified)
    /\ UNCHANGED nullified
    /\ UNCHANGED <<overflow_checks, mk_vars, mt_vars, race_vars>>

\* UtxoSet::nullify: removes the output and returns it if it is live.
Nullify(utxo_ref) ==
    /\ utxo_set[utxo_ref] # NoUtxo
    /\ utxo_set' = [utxo_set EXCEPT ![utxo_ref] = NoUtxo]
    /\ nullified' = nullified \cup {utxo_ref}
    /\ revived' = revived \ {utxo_ref}
    /\ UNCHANGED <<overflow_checks, mk_vars, mt_vars, race_vars>>

\* The store after a transaction is applied: every input nullified, every
\* output inserted under the reference at[i].
Applied(store, tx, at) ==
    [r \in Refs |->
        IF \E i \in DOMAIN tx.outputs : at[i] = r
        THEN tx.outputs[CHOOSE i \in DOMAIN tx.outputs : at[i] = r]
        ELSE IF r \in InputRefs(tx) THEN NoUtxo ELSE store[r]]

\* References no output was ever stored under.
NeverUsed == {r \in Refs : utxo_set[r] = NoUtxo /\ r \notin nullified}

\* A transaction that passes validation is applied: its inputs are
\* nullified and its outputs inserted under references of their own.
Apply(tx) ==
    /\ ValidateTx(overflow_checks, utxo_set, tx).tag = "Ok"
    /\ \E at \in [DOMAIN tx.outputs -> NeverUsed] :
          /\ \A i, j \in DOMAIN at : at[i] = at[j] => i = j
          /\ utxo_set' = Applied(utxo_set, tx, at)
    /\ nullified' = nullified \cup InputRefs(tx)
    /\ revived' = revived \ InputRefs(tx)
    /\ UNCHANGED <<overflow_checks, mk_vars, mt_vars, race_vars>>

Init ==
    /\ overflow_checks \in BOOLEAN
    /\ LedgerIdle
    /\ MakeIdle /\ MatchIdle /\ RaceIdle

Next ==
    \/ \E tx \in Txs : Apply(tx)
    \/ \E r \in Refs, u \in LedgerUtxos : Insert(r, u)
    \/ \E r \in Refs : Nullify(r)

Spec == Init /\ [][Next]_vars

-----------------------------------------------------------------------------
(* SpecRace: two validators run pre_validate against the shared store, one  *)
(* peek at a time, and apply what passed.  The constraint checker reads     *)
(* nothing of the store beyond the peeked outputs and takes no step here.   *)

RaceInputs == {TxInput(r, <<1, 0>>) : r \in Refs}

RaceTxs ==
    {Transaction(inputs, outputs, "MatchOrders") :
        inputs \in UNION {[1..n -> RaceInputs] : n \in 0..MaxTxInputs},
        outputs \in {<<>>, <<Utxo(2, CoinData(A_ID, 1))>>}}

\* Validation of v_tx[p] found no fault.
Passed(p) == v_pc[p] \in {"valid", "applied", "apply_failed"}

\* The transaction of p spends an output the transaction of q spends.
Conflict(p, q) == p # q /\ InputRefs(v_tx[p]) \cap InputRefs(v_tx[q]) # {}

\* pre_validate is entered (utxo.rs 95-101): the duplicate test.
Begin(p, tx) ==
    /\ v_pc[p] = "idle"
    /\ v_tx' = [v_tx EXCEPT ![p] = tx]
    /\ v_idx' = [v_idx EXCEPT ![p] = 1]
    /\ v_pc' = [v_pc EXCEPT ![p] =
                    IF ~NoDuplicateInputs(tx) THEN "rejected"
                    ELSE IF Len(tx.inputs) = 0 THEN "valid"
                    ELSE "peeking"]
    /\ v_late' = [v_late EXCEPT ![p] =
                    \E q \in Validators \ {p} :
                        /\ v_pc[q] = "applied"
                        /\ InputRefs(tx) \cap InputRefs(v_tx[q]) # {}]
    /\ UNCHANGED <<overflow_checks, mk_vars, mt_vars, ledger_vars>>

\* One turn of the loop of pre_validate (utxo.rs 103-112).
PeekStep(p) ==
    /\ v_pc[p] = "peeking"
    /\ IF InputAdmissible(utxo_set, v_tx[p], v_idx[p])
       THEN /\ v_idx' = [v_idx EXCEPT ![p] = @ + 1]
            /\ v_pc' = [v_pc EXCEPT ![p] =
                            IF v_idx[p] = Len(v_tx[p].inputs) THEN "valid"
                            ELSE "peeking"]
       ELSE /\ v_pc' = [v_pc EXCEPT ![p] = "rejected"]
            /\ UNCHANGED v_idx
    /\ UNCHANGED <<v_tx, v_late>>
    /\ UNCHANGED <<overflow_checks, mk_vars, mt_vars, ledger_vars>>

\* The transaction that passed is applied in one step; it is turned down
\* when nullify finds one of its inputs gone.
ApplyStep(p) ==
    /\ v_pc[p] = "valid"
    /\ IF \A r \in InputRefs(v_tx[p]) : utxo_set[r] # NoUtxo
       THEN /\ \E at \in [DOMAIN v_tx[p].outputs -> NeverUsed] :
                  /\ \A i, j \in DOMAIN at : at[i] = at[j] => i = j
                  /\ utxo_set' = Applied(utxo_set, v_tx[p], at)
            /\ nullified' = nullified \cup InputRefs(v_tx[p])
            /\ v_pc' = [v_pc EXCEPT ![p] = "applied"]
       ELSE /\ v_pc' = [v_pc EXCEPT ![p] = "apply_failed"]
            /\ UNCHANGED <<utxo_set, nullified>>
    /\ UNCHANGED <<revived, v_tx, v_idx, v_late>>
    /\ UNCHANGED <<overflow_checks, mk_vars, mt_vars>>

InitRace ==
    /\ overflow_checks = FALSE
    /\ utxo_set = [r \in Refs |-> IF r = "r1" THEN Utxo(1, CoinData(A_ID, 1)) ELSE NoUtxo]
    /\ nullified = {}
    /\ revived = {}
    /\ RaceIdle
    /\ MakeIdle /\ MatchIdle

NextRace ==
    \E p \in Validators :
        \/ \E tx \in RaceTxs : Begin(p, tx)
        \/ PeekStep(p)
        \/ ApplyStep(p)

SpecRace == InitRace /\ [][NextRace]_vars

-----------------------------------------------------------------------------
(* Claims about pre_validate and the ledger store (Spec) *)

\* Two inputs of tx carry the same output reference.
RepeatsReference(tx) ==
    \E i, j \in DOMAIN tx.inputs : i # j /\ tx.inputs[i].output = tx.inputs[j].output

\* C6: pre_validate rejects every transaction in which two inputs carry the
\* same output reference, whatever their witnesses.
C6_NoRepeatedReference ==
    \A tx \in Txs : RepeatsReference(tx) => PreValidate(utxo_set, tx) = "Err"

\* C7 as stated: once a reference has been nullified, every transaction
\* with an input on it is rejected by pre_validate.
C7_NullifiedRejected ==
    \A tx \in Txs :
        InputRefs(tx) \cap nullified # {} => PreValidate(utxo_set, tx) = "Err"

\* C7 amended: once a reference has been nullified, every transaction with
\* an input on it is rejected by pre_validate for as long as no output has
\* been inserted under that reference again.
C7_NullifiedRejectedUntilRevived ==
    \A tx \in Txs :
        InputRefs(tx) \cap (nullified \ revived) # {} =>
            PreValidate(utxo_set, tx) = "Err"

\* C7 witness: one reference nullified and not inserted again, beside a
\* live output that key 1 redeems, so that a transaction spending both
\* fails on the nullified reference alone.
C7_Witness ==
    \E r \in nullified \ revived, l \in Refs :
        /\ utxo_set[l] # NoUtxo /\ utxo_set[l].redeemer = 1
        /\ PreValidate(utxo_set, Transaction(<<TxInput(l, <<1, 0>>)>>, <<>>,
                                             "MatchOrders")) = "Ok"
        /\ PreValidate(utxo_set, Transaction(<<TxInput(l, <<1, 0>>),
                                               TxInput(r, <<1, 0>>)>>, <<>>,
                                             "MatchOrders")) = "Err"

\* C8: a transaction that was accepted and applied fails validation when
\* it is presented again.
C8_NoReplay ==
    [][\A tx \in Txs :
          Apply(tx) => ValidateTx(overflow_checks, utxo_set', tx).tag # "Ok"]_vars

\* C9 as stated: validation does not succeed for both of two transactions
\* that share an input reference.
C9_NotBothValid ==
    \A p, q \in Validators : Conflict(p, q) => ~(Passed(p) /\ Passed(q))

\* C9 amended: validation can succeed for both of two transactions that
\* share an input reference when each peeks it before the other is applied;
\* a validation that begins after the other transaction was applied fails,
\* and at most one of the two is applied.
C9_LateValidationFails ==
    \A p, q \in Validators :
        /\ v_late[p] => ~Passed(p)
        /\ Conflict(p, q) => ~(v_pc[p] = "applied" /\ v_pc[q] = "applied")

\* C9 witness: both validations passed on a shared input, one transaction
\* was applied and the other turned down at application.
C9_Witness ==
    \E p, q \in Validators :
        /\ Conflict(p, q)
        /\ v_pc[p] = "applied" /\ v_pc[q] = "apply_failed"

-----------------------------------------------------------------------------
(* SpecChecks: both constraint checkers, each on every argument list of    *)
(* its sample payloads, in both builds.                                    *)

InitChecks == InitMake \/ InitMatch

NextChecks == CallMakeOrder \/ CallMatchOrders

SpecChecks == InitChecks /\ [][NextChecks]_vars

-----------------------------------------------------------------------------
(* Claim about the arithmetic of both checkers (SpecChecks) *)

\* The call came back with a Result: Ok(priority) or a DexError.
Returned(result) == result.tag \in {"Ok", "Err"}

\* The total_collateral MakeOrder::check compares with offer_amount.
MakeTotal == SumCollateral(overflow_checks, TestConfig, mk_inputs, 1, 0)

\* The four totals MatchOrders::check compares after its loop.
MatchTotals ==
    MatchLoop(overflow_checks, TestConfig, mt_inputs, mt_outputs, 1,
              [total_a_required |-> 0, total_b_required |-> 0,
               a_so_far |-> 0, b_so_far |-> 0])

\* The arithmetic sums of the offers and asks of the batch, side by side.
TrueTotals(inputs) ==
    [total_a_required |-> TrueTotal(inputs, OppositeSide(TestConfig), "ask_amount", 1),
     total_b_required |-> TrueTotal(inputs, TestConfig, "ask_amount", 1),
     a_so_far |-> TrueTotal(inputs, TestConfig, "offer_amount", 1),
     b_so_far |-> TrueTotal(inputs, OppositeSide(TestConfig), "offer_amount", 1)]

\* C11: both checks are total over u128 amounts: every call returns
\* Ok(priority) or a DexError and never aborts, and the totals a call
\* compares (total_collateral; a_so_far, b_so_far, total_a_required,
\* total_b_required) are the arithmetic sums, not sums wrapped modulo 2^128.
C11_TotalNoWrap ==
    /\ MakeCalled =>
          /\ Returned(mk_result)
          /\ (MakeWellTyped /\ MakeTotal.tag = "Sum") =>
                MakeTotal.total = TrueCoinSum(mk_inputs, 1)
    /\ MatchCalled =>
          /\ Returned(mt_result)
          /\ (Len(mt_inputs) = Len(mt_outputs) /\ MatchTotals.tag = "Done") =>
                MatchTotals.acc = TrueTotals(mt_inputs)

====
